---- MODULE Spec2Model ----
(***************************************************************************)
(* A model of TIFFImageryProvider.ts: the creation of a provider           *)
(* (fromGeoTIFF, getCogLevels, getReadSamples, getBandValues and the       *)
(* constructor) and the calls on a created provider (requestImage,        *)
(* _loadTile, pickFeatures, destroy) with its tile cache.                  *)
(***************************************************************************)
EXTENDS Integers, Sequences, FiniteSets, TLC

VARIABLES
  \* ---- creation
  cfg,          \* what the caller and the file supply: source, options
  cpc,          \* position of the creation: start, levels, bands, built, failed
  created,      \* what the creation has produced so far (see NoCreation)
  \* ---- the provider's fields
  ready, destroyed, renderOptions, bands, readSamples, cogLevels,
  minimumLevel, maximumLevel, cacheTime, plot, worker,
  rectangle,    \* [def, west, east], in quarter turns (def = FALSE: unset)
  images,       \* _images:      [def, arr]  (def = FALSE: undefined)
  cache,        \* _imagesCache: [def, map]  (def = FALSE: undefined)
  \* ---- the environment of the requests
  shared,       \* the plot's datasets and the canvas, shared by all renders
  now,          \* new Date().getTime(), in ticks
  req           \* the requestImage calls, one record per caller slot

cvars == <<cfg, cpc, created>>
pvars == <<ready, destroyed, renderOptions, bands, readSamples, cogLevels,
           minimumLevel, maximumLevel, cacheTime, plot, worker, rectangle>>
vars == <<cfg, cpc, created, ready, destroyed, renderOptions, bands,
          readSamples, cogLevels, minimumLevel, maximumLevel, cacheTime,
          plot, worker, rectangle, images, cache, shared, now, req>>

----------------------------------------------------------------------------
(* Bounds of the model *)

\* concurrent requestImage calls
MaxReq == 2
\* the clock stops at MaxTime ticks
MaxTime == 2
\* requested zoom levels are 0..MaxZoom
MaxZoom == 3
\* overview images of an explored file
MaxImages == 3
\* samples per pixel of an explored file
MaxSamples == 3
\* the configured cache survival time of the explored providers, in ticks
TTL == 1

(* Program constants *)

\* options.maximumLevel ?? 18
DefaultMaximumLevel == 18
\* image.getTileWidth() || 512
DefaultTileSize == 512
\* CMath.TWO_PI, in quarter turns
TWO_PI == 4

----------------------------------------------------------------------------
(* Render options.  An absent option is a record with def = FALSE. *)

NoMulti == [def |-> FALSE, full |-> FALSE, ranged |-> FALSE, band |-> <<0, 0, 0>>]
NoSingle == [def |-> FALSE, band |-> 0, hasExpr |-> FALSE, expr |-> {}, domain |-> FALSE]
NoRange == [def |-> FALSE, min |-> 0, max |-> 0]
Range(lo, hi) == [def |-> TRUE, min |-> lo, max |-> hi]

\* the ranges the different sources of a band range supply
StatsRange == Range(10, 20)
RGBRange == Range(0, 255)
MultiRange == Range(30, 40)
DomainRange == Range(50, 60)
SampledRange == Range(70, 80)

\* Math.ceil(a / b) for b > 0
CeilDiv(a, b) == -((-a) \div b)

RECURSIVE Repeat(_, _)
Repeat(v, n) == IF n <= 0 THEN <<>> ELSE <<v>> \o Repeat(v, n - 1)

RECURSIVE CountDown(_)
\* <<m, m-1, ..., 0>>
CountDown(m) == IF m < 0 THEN <<>> ELSE <<m>> \o CountDown(m - 1)

RECURSIVE SortedSeq(_)
SortedSeq(S) ==
  IF S = {} THEN <<>>
  ELSE LET m == CHOOSE x \in S : \A y \in S : x <= y
       IN <<m>> \o SortedSeq(S \ {m})

SeqRange(s) == {s[i] : i \in DOMAIN s}

----------------------------------------------------------------------------
(* getCogLevels: sizes[i + 1] is max(width, height) of image i *)

RECURSIVE ScanLevel(_, _, _)
\* the loop of getCogLevels from image i down: the index it breaks at
ScanLevel(sizes, tileSize, i) ==
  IF i < 0 THEN Len(sizes) - 1
  ELSE IF 2 * sizes[i + 1] > tileSize THEN i
  ELSE ScanLevel(sizes, tileSize, i - 1)

RECURSIVE CountUp(_, _)
CountUp(a, m) == IF a > m THEN <<>> ELSE <<a>> \o CountUp(a + 1, m)

\* the final loop pushing the indices in ascending order
GetCogLevelsAscending(sizes, tileSize) ==
  LET last == Len(sizes) - 1
      firstImageLevel == CeilDiv(sizes[last + 1] - tileSize, tileSize)
  IN Repeat(last, firstImageLevel)
       \o CountUp(0, ScanLevel(sizes, tileSize, last))

GetCogLevels(sizes, tileSize) ==
  LET last == Len(sizes) - 1
      firstImageLevel == CeilDiv(sizes[last + 1] - tileSize, tileSize)
  IN Repeat(last, firstImageLevel)
       \o CountDown(ScanLevel(sizes, tileSize, last))

----------------------------------------------------------------------------
(* getReadSamples and getBandValues *)

\* utils.findAndSortBandNumbers: the zero-based numbers of the bands b<n> an
\* expression names, ascending
FindAndSortBandNumbers(expr) == SortedSeq({b - 1 : b \in expr})

\* [threw, samples]: multi.g.band of an absent channel is a TypeError
GetReadSamples(ro) ==
  IF ro.multi.def /\ ~ro.multi.full
  THEN [threw |-> TRUE, samples |-> <<>>]
  ELSE [threw |-> FALSE,
        samples |->
          IF ro.single.def /\ ro.single.hasExpr
          THEN FindAndSortBandNumbers(ro.single.expr)
          ELSE IF ro.multi.def
               THEN <<ro.multi.band[1] - 1, ro.multi.band[2] - 1,
                      ro.multi.band[3] - 1>>
               ELSE IF ro.convertToRGB THEN <<0, 1, 2>> ELSE <<0>>]

\* the channel of multi that names bandNum supplies both min and max
MultiSupplies(multi, bandNum) ==
  /\ multi.def
  /\ multi.ranged
  /\ \E c \in 1..3 : multi.band[c] = bandNum

\* what the non-statistics branch of getBandValues leaves in bands[i + 1]
\* before the sampling fallback: each later source overwrites the earlier
ConfiguredRange(ro, i) ==
  LET bandNum == i + 1
      a == IF ro.convertToRGB THEN RGBRange ELSE NoRange
      b == IF MultiSupplies(ro.multi, bandNum) THEN MultiRange ELSE a
  IN IF /\ ro.single.def
        /\ ~ro.single.hasExpr
        /\ ro.single.band = bandNum
        /\ ro.single.domain
     THEN DomainRange
     ELSE b

ExpressionActive(ro) == ro.single.def /\ ro.single.hasExpr

\* the fallback taken although RGB conversion supplies [0, 255]
SampledIgnoringRGB(ro, stats, i) ==
  /\ i \notin stats
  /\ ~ExpressionActive(ro)
  /\ ~ConfiguredRange([ro EXCEPT !.convertToRGB = FALSE], i).def

\* the sampling fallback is taken for sample i
Sampled(ro, stats, i) ==
  /\ i \notin stats
  /\ ~ExpressionActive(ro)
  /\ ~ConfiguredRange(ro, i).def

BandRange(ro, stats, i) ==
  IF i \in stats THEN StatsRange
  ELSE IF Sampled(ro, stats, i) THEN SampledRange
  ELSE ConfiguredRange(ro, i)

\* [threw, bands, reads]: reads counts the readRasters calls issued (two for
\* each sampled band: the logged one and the one used); a failing read
\* rejects the whole resolution
GetBandValues(ro, samples, stats, sampleOk) ==
  LET S == SeqRange(samples)
      sampled == {i \in S : Sampled(ro, stats, i)}
      resolved == {i \in S : BandRange(ro, stats, i).def}
  IN IF sampled # {} /\ ~sampleOk
     THEN [threw |-> TRUE, bands |-> <<>>, reads |-> Cardinality(sampled)]
     ELSE [threw |-> FALSE,
           bands |-> [b \in {i + 1 : i \in resolved} |->
                        BandRange(ro, stats, b - 1)],
           reads |-> 2 * Cardinality(sampled)]

----------------------------------------------------------------------------
(* The constructor *)

\* no render mode is configured: no single, no multi and no (true)
\* convertToRGB
NoModeConfigured(ro) == ~ro.single.def /\ ~ro.multi.def /\ ~ro.convertToRGB

\* lines 254-272: with no mode configured, the default mode is spread under
\* the caller's options, so an explicit convertToRGB: false survives it
DefaultMode(ro, samples) ==
  IF NoModeConfigured(ro)
  THEN IF samples > 1
       THEN [ro EXCEPT !.convertToRGB = ~ro.rgbKey]
       ELSE [ro EXCEPT !.single = [NoSingle EXCEPT !.def = TRUE, !.band = 1]]
  ELSE ro

\* lines 273-275: single.band ?? 1
DefaultBand(ro) ==
  IF ro.single.def /\ ro.single.band = 0
  THEN [ro EXCEPT !.single.band = 1]
  ELSE ro

\* lines 285-321: the projection is resolved by projFunc, is EPSG:4326, is
\* derived from the geo keys, or cannot be derived
ProjectionResolved(prj) == prj \in {"custom", "4326", "auto"}

NoRectangle == [def |-> FALSE, west |-> 0, east |-> 0]

\* CMath.toRadians on whole quarter turns: degrees to units of pi / 2
ToRadians(degrees) == degrees \div 90

\* Rectangle.fromDegrees(west, south, east, north), its longitudes
FromDegrees(west, east) ==
  [def |-> TRUE, west |-> ToRadians(west), east |-> ToRadians(east)]

\* lines 325-327
NormalizeEast(rect) ==
  IF rect.east < rect.west
  THEN [rect EXCEPT !.east = rect.east + TWO_PI]
  ELSE rect

\* lines 333-335 clamping to the length of the level map
ClampMaximumLevelToLength(configured, levels) ==
  IF configured > Len(levels) THEN Len(levels) ELSE configured

\* lines 333-335
ClampMaximumLevel(configured, levels) ==
  IF configured > Len(levels) - 1 THEN Len(levels) - 1 ELSE configured

\* lines 339-365: [plot, failed]: the plot object exists afterwards; a step of
\* building it threw and was caught
BuildPlot(ro, bnds, plotBuild) ==
  IF ~ro.single.def THEN [plot |-> FALSE, failed |-> "none"]
  ELSE IF ro.single.band \notin DOMAIN bnds
           /\ (~ro.single.hasExpr \/ ~ro.single.domain)
       THEN [plot |-> FALSE, failed |-> "band"]
  ELSE IF plotBuild = "ctor" THEN [plot |-> FALSE, failed |-> "plot"]
  ELSE IF plotBuild = "scale" THEN [plot |-> TRUE, failed |-> "plot"]
  ELSE [plot |-> TRUE, failed |-> "none"]

\* new TIFFImageryProvider(o): [threw, failed, ready, errs, renderOptions,
\* plot, maximumLevel]; failed names the step that failed, errs counts the
\* error events raised
Constructor(o) ==
  LET ro == DefaultBand(DefaultMode(o.renderOptions, o.samples))
      built == BuildPlot(ro, o.bands, o.plotBuild)
      base == [threw |-> FALSE, failed |-> "none", ready |-> FALSE, errs |-> 0,
               renderOptions |-> ro, plot |-> FALSE,
               maximumLevel |-> o.maximumLevel, rectangle |-> NoRectangle]
  IN IF o.samples < 3 /\ o.renderOptions.convertToRGB
     THEN [base EXCEPT !.threw = TRUE, !.failed = "rgb",
                       !.renderOptions = o.renderOptions]
     ELSE IF ~ProjectionResolved(o.prj)
     THEN [base EXCEPT !.threw = TRUE, !.failed = "projection"]
     ELSE [base EXCEPT !.ready = TRUE,
                       !.failed = built.failed,
                       !.errs = IF built.failed = "none" THEN 0 ELSE 1,
                       !.plot = built.plot,
                       !.rectangle =
                          NormalizeEast(FromDegrees(o.box.west, o.box.east)),
                       !.maximumLevel =
                          ClampMaximumLevel(o.maximumLevel, o.cogLevels)]

----------------------------------------------------------------------------
(* Creation: fromUrl / fromBlob -> fromGeoTIFF -> constructor, or the      *)
(* constructor called with the caller's own bands, samples and levels      *)

\* image.getTileWidth() || 512
TileSizeOf(c) == IF c.tileWidth = 0 THEN DefaultTileSize ELSE c.tileWidth

\* options.cache ?? 60 * 1000, in ticks
DefaultCacheTime == TTL

\* the options fromGeoTIFF passes (lines 658-667): no cache, no levels
GeoTIFFOptions(c, levels, samples, bnds) ==
  [samples |-> c.samples, renderOptions |-> c.renderOptions, bands |-> bnds,
   readSamples |-> samples, cogLevels |-> levels, prj |-> c.prj,
   plotBuild |-> c.plotBuild, maximumLevel |-> DefaultMaximumLevel,
   minimumLevel |-> 0, cache |-> DefaultCacheTime, box |-> c.box]

\* the options of a caller of the constructor
CallerOptions(c) ==
  [samples |-> c.samples, renderOptions |-> c.renderOptions,
   bands |-> [b \in c.bandsGiven |-> StatsRange],
   readSamples |-> GetReadSamples(c.renderOptions).samples,
   cogLevels |-> GetCogLevels(c.sizes, TileSizeOf(c)), prj |-> c.prj,
   plotBuild |-> c.plotBuild, maximumLevel |-> c.maximumLevel,
   minimumLevel |-> c.minimumLevel, cache |-> c.cache, box |-> c.box]

NoCreation == [threw |-> FALSE, failed |-> "none", errs |-> 0, reads |-> 0]

\* the fields the constructor sets (lines 218-367) from its result k
Install(k, o) ==
  /\ ready' = k.ready
  /\ destroyed' = FALSE
  /\ renderOptions' = k.renderOptions
  /\ bands' = o.bands
  /\ readSamples' = o.readSamples
  /\ cogLevels' = o.cogLevels
  /\ minimumLevel' = o.minimumLevel
  /\ maximumLevel' = k.maximumLevel
  /\ cacheTime' = o.cache
  /\ plot' = k.plot
  /\ worker' = cfg.workerOk
  /\ rectangle' = k.rectangle
  /\ images' = [def |-> TRUE, arr |-> [i \in 0..(Len(cfg.sizes) - 1) |-> 0]]
  /\ cache' = [def |-> TRUE, map |-> <<>>]
  /\ created' = [created EXCEPT !.threw = k.threw, !.failed = k.failed,
                                !.errs = k.errs]
  /\ cpc' = IF k.threw THEN "failed" ELSE "built"

\* fromGeoTIFF, lines 639-646
FromGeoTIFF ==
  /\ cpc = "start"
  /\ cfg.via = "fromGeoTIFF"
  /\ cogLevels' = GetCogLevels(cfg.sizes, TileSizeOf(cfg))
  /\ cpc' = "levels"
  /\ UNCHANGED <<cfg, created, ready, destroyed, renderOptions, bands,
                 readSamples, minimumLevel, maximumLevel, cacheTime, plot,
                 worker, rectangle, images, cache, shared, now, req>>

\* fromGeoTIFF, lines 648-657
ResolveBands ==
  /\ cpc = "levels"
  /\ LET rs == GetReadSamples(cfg.renderOptions)
         bv == GetBandValues(cfg.renderOptions, rs.samples, cfg.stats,
                             cfg.sampleOk)
     IN /\ readSamples' = rs.samples
        /\ bands' = IF rs.threw \/ bv.threw THEN <<>> ELSE bv.bands
        /\ created' =
             [created EXCEPT
                !.reads = IF rs.threw THEN 0 ELSE bv.reads,
                !.threw = rs.threw \/ bv.threw,
                !.failed = IF rs.threw THEN "samples"
                           ELSE IF bv.threw THEN "read" ELSE "none"]
        /\ cpc' = IF rs.threw \/ bv.threw THEN "failed" ELSE "bands"
  /\ UNCHANGED <<cfg, ready, destroyed, renderOptions, cogLevels,
                 minimumLevel, maximumLevel, cacheTime, plot, worker,
                 rectangle, images, cache, shared, now, req>>

\* fromGeoTIFF, lines 658-672
Construct ==
  /\ cpc = "bands"
  /\ LET o == GeoTIFFOptions(cfg, cogLevels, readSamples, bands)
     IN Install(Constructor(o), o)
  /\ UNCHANGED <<cfg, shared, now, req>>

\* new TIFFImageryProvider(options) by a caller
ConstructDirect ==
  /\ cpc = "start"
  /\ cfg.via = "constructor"
  /\ LET o == CallerOptions(cfg)
     IN Install(Constructor(o), o)
  /\ UNCHANGED <<cfg, shared, now, req>>

NextCreate == FromGeoTIFF \/ ResolveBands \/ Construct \/ ConstructDirect

----------------------------------------------------------------------------
(* Tile requests and feature picks *)

Req == 1..MaxReq

\* no settled promise is waiting for its caller: the caller takes a settled
\* promise before the model's next step (what it sees is fixed by then)
NoneSettled == \A r \in Req : req[r].pc # "done"

\* the cache key `${x}_${y}_${z}`
Key(x, y, z) == <<x, y, z>>

NoData == <<>>

\* a caller slot with no call: kind is tile or pick, level the zoom whose
\* overview the call reads; called, cached, age, killed, wrote and swept
\* record what the call did
NoWindow == <<>>

IdleReq ==
  [pc |-> "idle", kind |-> "tile", tile |-> Key(0, 0, 0), level |-> 0,
   outcome |-> "none", data |-> NoData, errs |-> 0, called |-> FALSE,
   cached |-> FALSE, age |-> 0, killed |-> FALSE, failed |-> "none",
   wrote |-> FALSE, swept |-> 0, window |-> NoWindow]

\* line 445 without its lower bound
OutOfRangeAboveOnly(z) == z > maximumLevel

\* line 445
OutOfRange(z) == z < minimumLevel \/ z > maximumLevel

\* line 541 without the clamp
PickLevelUnclamped(zoom) == zoom

\* line 541
PickLevel(zoom) == IF zoom > maximumLevel THEN maximumLevel ELSE zoom

\* this.cogLevels[z]; -1 stands for undefined
LevelIndex(z) == IF z + 1 \in DOMAIN cogLevels THEN cogLevels[z + 1] ELSE -1

\* this._images[index] holds an image
ImageHeld(index) == index \in DOMAIN images.arr /\ images.arr[index] # 0

\* the promise resolves with result v
Resolve(q, v) ==
  [q EXCEPT !.pc = "done",
            !.outcome = IF v = NoData THEN "empty" ELSE "image",
            !.data = v]

\* the promise rejects; n error events were raised on the way
Reject(q, step, n) ==
  [q EXCEPT !.pc = "done", !.outcome = "error", !.failed = step,
            !.errs = q.errs + n]

\* lines 518-522 deleting the entries whose age has reached the survival time
SweepEager(map, t) ==
  [k \in {j \in DOMAIN map : ~(t - map[j].time >= cacheTime)} |-> map[k]]

\* lines 518-522
Sweep(map, t) ==
  [k \in {j \in DOMAIN map : ~(t - map[j].time > cacheTime)} |-> map[k]]

\* lines 514-517 storing the entry without the time of the write
PutUnstamped(map, k, t, v) ==
  [j \in DOMAIN map \cup {k} |->
     IF j = k THEN [time |-> 0, data |-> v] ELSE map[j]]

\* lines 514-517
Put(map, k, t, v) ==
  [j \in DOMAIN map \cup {k} |->
     IF j = k THEN [time |-> t, data |-> v] ELSE map[j]]

\* the catch of lines 525-529 marking the provider not ready
CatchUnready(r, q, step, n) ==
  /\ req' = [req EXCEPT ![r] = Reject(q, step, n + 1)]
  /\ ready' = FALSE
  /\ UNCHANGED <<cvars, destroyed, renderOptions, bands, readSamples,
                 cogLevels, minimumLevel, maximumLevel, cacheTime, plot,
                 worker, rectangle, images, cache, now>>

\* the catch of lines 525-529: raises the error event and rethrows; n events
\* were raised before it
Catch(r, q, step, n) ==
  /\ req' = [req EXCEPT ![r] = Reject(q, step, n + 1)]
  /\ UNCHANGED <<cvars, pvars, images, cache, now>>

\* lines 512-524 caching the result whatever the survival time is
FinishCachingAlways(r, q, v) ==
  IF ~cache.def
  THEN Catch(r, q, "cachewrite", 0)
  ELSE LET put == Put(cache.map, q.tile, now, v)
           kept == Sweep(put, now)
       IN /\ req' = [req EXCEPT ![r] =
                       [Resolve(q, v) EXCEPT
                          !.wrote = TRUE,
                          !.swept = Cardinality(DOMAIN put)
                                      - Cardinality(DOMAIN kept)]]
          /\ cache' = [cache EXCEPT !.map = kept]
          /\ UNCHANGED <<cvars, pvars, images, now>>

\* lines 512-524: the result is cached, the cache swept, the result returned
Finish(r, q, v) ==
  IF cacheTime = 0
  THEN /\ req' = [req EXCEPT ![r] = Resolve(q, v)]
       /\ UNCHANGED <<cvars, pvars, images, cache, now>>
  ELSE IF ~cache.def
  THEN Catch(r, q, "cachewrite", 0)
  ELSE LET put == Put(cache.map, q.tile, now, v)
           kept == Sweep(put, now)
       IN /\ req' = [req EXCEPT ![r] =
                       [Resolve(q, v) EXCEPT
                          !.wrote = TRUE,
                          !.swept = Cardinality(DOMAIN put)
                                      - Cardinality(DOMAIN kept)]]
          /\ cache' = [cache EXCEPT !.map = kept]
          /\ UNCHANGED <<cvars, pvars, images, now>>

\* lines 452 and 389-394: _loadTile up to its first await
\* image.getWidth() and image.getHeight() of the overview at index
WidthOf(index) == cfg.sizes[index + 1]
HeightOf(index) == cfg.heights[index + 1]

RECURSIVE Pow2(_)
Pow2(e) == IF e = 0 THEN 1 ELSE 2 * Pow2(e - 1)

\* getNumberOfXTilesAtLevel(z) of a scheme with one tile at level zero:
\* 1 << z on 32-bit integers
NumberOfTilesAtLevel(z) ==
  LET shift == z % 32
  IN IF shift = 31 THEN -Pow2(31) ELSE Pow2(shift)

\* Math.round(a / b) for a >= 0 and b > 0: halves go up
Round(a, b) == (2 * a + b) \div (2 * b)

\* the end bounds taken as start plus the rounded tile size
PixelBoundsByWidth(x, y, z, index) ==
  LET n == NumberOfTilesAtLevel(z)
      width == WidthOf(index)
      height == HeightOf(index)
  IN <<Round(x * width, n), Round(y * height, n),
       Round(x * width, n) + Round(width, n),
       Round(y * height, n) + Round(height, n)>>

\* lines 395-409: the quotient width / n is exact because n is a power of
\* two, so x * (width / n) is the rational x * width / n
PixelBounds(x, y, z, index) ==
  LET n == NumberOfTilesAtLevel(z)
      width == WidthOf(index)
      height == HeightOf(index)
  IN <<Round(x * width, n), Round(y * height, n),
       Round((x + 1) * width, n), Round((y + 1) * height, n)>>

\* the window of request q, once its overview image is at hand
WindowOf(q) ==
  PixelBounds(q.tile[1], q.tile[2], q.level, LevelIndex(q.level))

LoadTile(r, q) ==
  IF ~images.def
  THEN Catch(r, q, "images", 0)
  ELSE /\ req' = [req EXCEPT ![r] =
                    IF ImageHeld(LevelIndex(q.level))
                    THEN [q EXCEPT !.pc = "decode", !.called = TRUE,
                                   !.window = WindowOf(q)]
                    ELSE [q EXCEPT !.pc = "fetch", !.called = TRUE]]
       /\ UNCHANGED <<cvars, pvars, images, cache, now>>

\* requestImage, lines 438-452
RequestImage(r, x, y, z) ==
  /\ cpc = "built"
  /\ NoneSettled
  /\ req[r].pc = "idle"
  /\ UNCHANGED shared
  /\ LET k == Key(x, y, z)
         q == [req[r] EXCEPT !.kind = "tile", !.tile = k, !.level = z]
         done(n) == /\ req' = [req EXCEPT ![r] = n]
                    /\ UNCHANGED <<cvars, pvars, images, cache, now>>
     IN IF ~ready THEN done(Reject(q, "notready", 0))
        ELSE IF OutOfRange(z) THEN done(Resolve(q, NoData))
        ELSE IF cacheTime # 0 /\ ~cache.def
        THEN done(Reject(q, "cacheread", 0))
        ELSE IF cacheTime # 0 /\ k \in DOMAIN cache.map
        THEN done([Resolve(q, cache.map[k].data) EXCEPT
                     !.cached = TRUE, !.age = now - cache.map[k].time])
        ELSE LoadTile(r, q)

\* _loadTile, lines 393-426: getImage settles; the slot is written in the
\* array that was held when the call was made
FetchReturn(r, ok) ==
  /\ NoneSettled
  /\ req[r].pc = "fetch"
  /\ UNCHANGED shared
  /\ IF ok
     THEN /\ images' =
               IF images.def
               THEN [images EXCEPT !.arr[LevelIndex(req[r].level)] = 1]
               ELSE images
          /\ req' = [req EXCEPT ![r].pc = "decode",
                                 ![r].window = WindowOf(req[r])]
          /\ UNCHANGED <<cvars, pvars, cache, now>>
     ELSE Catch(r, req[r], "fetch", 0)

\* the pixel data read for the window of request q, named by its tile
Decoded(q) == q.tile

NoShared == [datasets |-> NoData, canvas |-> NoData]

\* plot.removeAllDataset()
RemoveAllDataset(c) == [c EXCEPT !.datasets = NoData]

\* plot.addDataset for every sample read
AddDataset(c, data) == [c EXCEPT !.datasets = data]

\* plot.render() / plot.renderDataset: the canvas shows the datasets held
RenderDataset(c) == [c EXCEPT !.canvas = c.datasets]

\* canvas.toDataURL(): the image is what the canvas shows now
ToDataURL(c) == c.canvas

\* lines 486-509 rendering before the data of the request are registered
RenderSingleBeforeAdd(c, data) ==
  LET after == AddDataset(RenderDataset(c), data)
  IN [shared |-> after, image |-> ToDataURL(after)]

\* lines 486-509, run without a suspension point: reset, register, render,
\* capture
RenderSingle(c, data) ==
  LET after == RenderDataset(AddDataset(RemoveAllDataset(c), data))
  IN [shared |-> after, image |-> ToDataURL(after)]

\* lines 426-510: readRGB / readRasters settles; the single-band render runs
\* in the same turn
DecodeReturn(r, ok, renderOk) ==
  /\ NoneSettled
  /\ req[r].pc = "decode"
  /\ LET renders == /\ ok /\ ~destroyed
                    /\ ~(renderOptions.multi.def \/ renderOptions.convertToRGB)
                    /\ renderOptions.single.def /\ plot
         drawn == RenderSingle(shared, Decoded(req[r]))
     IN /\ shared' =
             IF ~renders THEN shared
             ELSE IF renderOk THEN drawn.shared
             ELSE AddDataset(RemoveAllDataset(shared), Decoded(req[r]))
        /\ IF ~ok THEN Catch(r, req[r], "decode", 1)
           ELSE IF destroyed
           THEN /\ req' = [req EXCEPT ![r] = Resolve(req[r], NoData)]
                /\ UNCHANGED <<cvars, pvars, images, cache, now>>
           ELSE IF renderOptions.multi.def \/ renderOptions.convertToRGB
           THEN IF ~worker
                THEN Catch(r, req[r], "worker", 0)
                ELSE /\ req' = [req EXCEPT ![r].pc = "composite"]
                     /\ UNCHANGED <<cvars, pvars, images, cache, now>>
           ELSE IF renderOptions.single.def /\ plot
           THEN IF renderOk
                THEN Finish(r, req[r], drawn.image)
                ELSE Catch(r, req[r], "composite", 0)
           ELSE /\ req' = [req EXCEPT ![r] = Resolve(req[r], NoData)]
                /\ UNCHANGED <<cvars, pvars, images, cache, now>>

\* lines 484 and 512-529: scheduleTask settles
CompositeReturn(r, ok) ==
  /\ NoneSettled
  /\ req[r].pc = "composite"
  /\ UNCHANGED shared
  /\ IF ok
     THEN Finish(r, req[r], Decoded(req[r]))
     ELSE Catch(r, req[r], "composite", 0)

\* pickFeatures, lines 532-546: up to its first await
PickFeatures(r, x, y, zoom) ==
  /\ cpc = "built"
  /\ NoneSettled
  /\ req[r].pc = "idle"
  /\ LET z == PickLevel(zoom)
         q == [req[r] EXCEPT !.kind = "pick", !.tile = Key(x, y, zoom),
                             !.level = z]
     IN req' = [req EXCEPT ![r] =
                  IF ~cfg.enablePickFeatures THEN Resolve(q, NoData)
                  ELSE IF ~images.def THEN Reject(q, "images", 0)
                  ELSE IF ImageHeld(LevelIndex(z))
                  THEN [q EXCEPT !.pc = "pdecode", !.called = TRUE]
                  ELSE [q EXCEPT !.pc = "pfetch", !.called = TRUE]]
  /\ UNCHANGED <<cvars, pvars, images, cache, shared, now>>

\* pickFeatures, lines 545-571: getImage settles; nothing catches a failure
PickFetchReturn(r, ok) ==
  /\ NoneSettled
  /\ req[r].pc = "pfetch"
  /\ images' = IF ok /\ images.def
               THEN [images EXCEPT !.arr[LevelIndex(req[r].level)] = 1]
               ELSE images
  /\ req' = [req EXCEPT ![r] = IF ok THEN [req[r] EXCEPT !.pc = "pdecode"]
                               ELSE Reject(req[r], "fetch", 0)]
  /\ UNCHANGED <<cvars, pvars, cache, shared, now>>

\* pickFeatures, lines 567-586: the 1x1 readRGB / readRasters settles
PickDecodeReturn(r, ok) ==
  /\ NoneSettled
  /\ req[r].pc = "pdecode"
  /\ req' = [req EXCEPT ![r] =
               IF ok
               THEN [req[r] EXCEPT !.pc = "done", !.outcome = "features",
                                   !.data = req[r].tile]
               ELSE Reject(req[r], "decode", 0)]
  /\ UNCHANGED <<cvars, pvars, images, cache, shared, now>>

\* destroy leaving the overview images and the cache in place
DestroyKeepsState ==
  /\ cpc = "built"
  /\ NoneSettled
  /\ ~destroyed
  /\ destroyed' = TRUE
  /\ req' = [r \in Req |->
               IF req[r].pc \in {"fetch", "decode", "composite"}
               THEN [req[r] EXCEPT !.killed = TRUE]
               ELSE req[r]]
  /\ UNCHANGED <<cvars, ready, renderOptions, bands, readSamples, cogLevels,
                 minimumLevel, maximumLevel, cacheTime, plot, worker,
                 rectangle, images, cache, shared, now>>

\* destroy, lines 589-596; a second call changes nothing
Destroy ==
  /\ cpc = "built"
  /\ NoneSettled
  /\ ~destroyed
  /\ images' = [def |-> FALSE, arr |-> <<>>]
  /\ cache' = [def |-> FALSE, map |-> <<>>]
  /\ destroyed' = TRUE
  /\ req' = [r \in Req |->
               IF req[r].pc \in {"fetch", "decode", "composite"}
               THEN [req[r] EXCEPT !.killed = TRUE]
               ELSE req[r]]
  /\ UNCHANGED <<cvars, ready, renderOptions, bands, readSamples, cogLevels,
                 minimumLevel, maximumLevel, cacheTime, plot, worker,
                 rectangle, shared, now>>

\* time passes; the clock is read by the cache write alone (line 513), so
\* it is followed only on a provider that caches
Tick ==
  /\ NoneSettled
  /\ cacheTime # 0
  /\ now < MaxTime
  /\ now' = now + 1
  /\ UNCHANGED <<cvars, pvars, images, cache, shared, req>>

\* the caller takes the settled promise
Settle(r) ==
  /\ req[r].pc = "done"
  /\ req' = [req EXCEPT ![r] = IdleReq]
  /\ UNCHANGED <<cvars, pvars, images, cache, shared, now>>

NextRequest ==
  \/ \E r \in Req, z \in 0..MaxZoom : RequestImage(r, 0, 0, z)
  \/ \E r \in Req, ok \in BOOLEAN : FetchReturn(r, ok)
  \/ \E r \in Req, ok \in BOOLEAN, renderOk \in BOOLEAN :
        DecodeReturn(r, ok, renderOk)
  \/ \E r \in Req, ok \in BOOLEAN : CompositeReturn(r, ok)
  \/ \E r \in Req : Settle(r)
  \/ Destroy
  \/ Tick

\* the zooms picked at: one the provider serves and the highest asked for
PickZooms == {1, MaxZoom}

NextPick ==
  \/ \E r \in Req, zoom \in PickZooms : PickFeatures(r, 0, 0, zoom)
  \/ \E r \in Req, ok \in BOOLEAN : PickFetchReturn(r, ok)
  \/ \E r \in Req, ok \in BOOLEAN : PickDecodeReturn(r, ok)

----------------------------------------------------------------------------
(* The explored files and options *)

RGBChoices ==
  {[convertToRGB |-> FALSE, rgbKey |-> FALSE],
   [convertToRGB |-> FALSE, rgbKey |-> TRUE],
   [convertToRGB |-> TRUE, rgbKey |-> TRUE]}

MultiRGB(ranged) ==
  [def |-> TRUE, full |-> TRUE, ranged |-> ranged, band |-> <<1, 2, 3>>]

MultiChoices ==
  {NoMulti, MultiRGB(FALSE), MultiRGB(TRUE),
   [def |-> TRUE, full |-> FALSE, ranged |-> FALSE, band |-> <<1, 0, 0>>]}

SingleBand(b, domain) ==
  [def |-> TRUE, band |-> b, hasExpr |-> FALSE, expr |-> {},
   domain |-> domain]

SingleChoices ==
  {NoSingle}
    \cup {SingleBand(b, d) : b \in 0..2, d \in BOOLEAN}
    \cup {[def |-> TRUE, band |-> 0, hasExpr |-> TRUE, expr |-> {1, 2},
           domain |-> d] : d \in BOOLEAN}

RenderChoices ==
  {[convertToRGB |-> c.convertToRGB, rgbKey |-> c.rgbKey, multi |-> m,
    single |-> s] : c \in RGBChoices, m \in MultiChoices, s \in SingleChoices}

Render(rgb, m, s) ==
  [convertToRGB |-> rgb, rgbKey |-> rgb, multi |-> m, single |-> s]

\* a pyramid of three overviews over 256-pixel tiles
Pyramid == <<1024, 512, 256>>

BaseConfig ==
  [via |-> "constructor", samples |-> 3, stats |-> {0, 1, 2},
   sizes |-> Pyramid, heights |-> Pyramid, tileWidth |-> 256, prj |-> "4326",
   renderOptions |-> Render(FALSE, MultiRGB(TRUE), NoSingle),
   plotBuild |-> "ok", sampleOk |-> TRUE, workerOk |-> TRUE,
   bandsGiven |-> {1, 2, 3}, cache |-> TTL, minimumLevel |-> 1,
   maximumLevel |-> DefaultMaximumLevel, enablePickFeatures |-> FALSE,
   box |-> [west |-> -90, east |-> 90]]

\* creation: every render option on every kind of file
CreateConfigs ==
  {[BaseConfig EXCEPT !.via = v[1], !.bandsGiven = v[2], !.samples = n,
                      !.stats = st, !.prj = prj, !.renderOptions = ro,
                      !.plotBuild = pb, !.sampleOk = sok] :
     v \in {<<"fromGeoTIFF", {}>>, <<"constructor", {}>>,
            <<"constructor", {1, 2, 3}>>},
     n \in 1..MaxSamples, st \in {{}, {0}, {0, 1, 2}},
     prj \in {"4326", "auto", "unsupported"}, ro \in RenderChoices,
     pb \in {"ok", "ctor", "scale"}, sok \in BOOLEAN}

SizeChoices == {100, 256, 300, 1024}

\* level maps: every pyramid of up to MaxImages overviews
LevelConfigs ==
  {[BaseConfig EXCEPT !.via = v, !.sizes = sz, !.heights = sz,
                      !.tileWidth = tw,
                      !.maximumLevel = mx, !.minimumLevel = mn] :
     v \in {"fromGeoTIFF", "constructor"},
     sz \in UNION {[1..n -> SizeChoices] : n \in 1..MaxImages},
     tw \in {0, 256}, mx \in {1, DefaultMaximumLevel}, mn \in {0, 1}}

\* the longitudes, in degrees, of the two corners handed to
\* Rectangle.fromDegrees
Longitudes == {-180, -90, 0, 90, 180}

\* rectangles: the bounding box of an EPSG:4326 file is used as it is, with
\* its smaller longitude first; the corners of any other file are projected
\* one by one, by projFunc or by proj4, and may come out in either order
RectConfigs ==
  {[BaseConfig EXCEPT !.via = v, !.prj = b[1],
                      !.box = [west |-> b[2], east |-> b[3]]] :
     v \in {"fromGeoTIFF", "constructor"},
     b \in {c \in {"4326", "custom", "auto", "unsupported"}
                   \X Longitudes \X Longitudes :
              c[1] = "4326" => c[2] < c[3]}}

\* requests: providers built by the constructor for the band-compositing
\* and for the single-band path, with and without cache, worker and plot
RequestConfigs ==
  {[BaseConfig EXCEPT !.cache = c[1], !.workerOk = c[2]] :
     c \in {<<TTL, TRUE>>, <<0, TRUE>>, <<TTL, FALSE>>}}
  \cup
  {[BaseConfig EXCEPT
      !.renderOptions = Render(FALSE, NoMulti, SingleBand(1, FALSE)),
      !.cache = c[1], !.plotBuild = c[2], !.minimumLevel = c[3]] :
     c \in {<<TTL, "ok", 0>>, <<0, "ok", 1>>, <<TTL, "ctor", 1>>}}

\* feature picks: providers with and without enablePickFeatures, with and
\* without cache
PickConfigs ==
  {[BaseConfig EXCEPT !.enablePickFeatures = c[1], !.cache = c[2]] :
     c \in {<<TRUE, TTL>>, <<TRUE, 0>>, <<FALSE, TTL>>}}

InitOf(c) ==
  /\ cfg = c
  /\ cpc = "start"
  /\ created = NoCreation
  /\ ready = FALSE
  /\ destroyed = FALSE
  /\ renderOptions = c.renderOptions
  /\ bands = <<>>
  /\ readSamples = <<>>
  /\ cogLevels = <<>>
  /\ minimumLevel = 0
  /\ maximumLevel = 0
  /\ cacheTime = 0
  /\ plot = FALSE
  /\ worker = FALSE
  /\ rectangle = NoRectangle
  /\ shared = NoShared
  /\ images = [def |-> TRUE, arr |-> <<>>]
  /\ cache = [def |-> TRUE, map |-> <<>>]
  /\ now = 0
  /\ req = [r \in Req |-> IdleReq]

Init == \E c \in RequestConfigs : InitOf(c)
Next == ConstructDirect \/ NextRequest
Spec == Init /\ [][Next]_vars

InitPick == \E c \in PickConfigs : InitOf(c)
SpecPick == InitPick /\ [][Next \/ NextPick]_vars

InitRect == \E c \in RectConfigs : InitOf(c)
SpecRect == InitRect /\ [][NextCreate]_vars

InitCreate == \E c \in CreateConfigs : InitOf(c)
SpecCreate == InitCreate /\ [][NextCreate]_vars

InitLevels == \E c \in LevelConfigs : InitOf(c)
SpecLevels == InitLevels /\ [][NextCreate]_vars

\* overviews whose sizes are not multiples of the tile counts, and files
\* with one image served at several zooms, one of them with fewer rows than
\* tiles
Shapes ==
  {[sizes |-> <<1001, 501, 251>>, heights |-> <<603, 302, 151>>],
   [sizes |-> <<1020>>, heights |-> <<1003>>],
   [sizes |-> <<1020>>, heights |-> <<5>>]}

WindowConfigs ==
  {[BaseConfig EXCEPT !.cache = 0, !.minimumLevel = 0,
                      !.sizes = sh.sizes, !.heights = sh.heights] :
     sh \in Shapes}

\* two requests in flight at a time are enough to compare neighbours
Pair == {1, MaxReq}

\* tile requests along the diagonal of every zoom
NextWindows ==
  \/ ConstructDirect
  \/ \E r \in Pair, z \in 0..MaxZoom :
       \E x \in 0..(NumberOfTilesAtLevel(z) - 1) : RequestImage(r, x, x, z)
  \/ \E r \in Pair, ok \in BOOLEAN : FetchReturn(r, ok)
  \/ \E r \in Pair, ok \in BOOLEAN, renderOk \in BOOLEAN :
        DecodeReturn(r, ok, renderOk)
  \/ \E r \in Pair, ok \in BOOLEAN : CompositeReturn(r, ok)
  \/ \E r \in Pair : Settle(r)

InitWindows == \E c \in WindowConfigs : InitOf(c)
SpecWindows == InitWindows /\ [][NextWindows]_vars

----------------------------------------------------------------------------
(* Properties *)

Done(r) == req[r].pc = "done"
InFlight(q) == q.pc \in {"fetch", "decode", "composite"}

\* request r starts in this step
Starts(r) == req[r].pc = "idle" /\ req'[r].pc # "idle"
\* request r settles in this step
Settles(r) == req[r].pc # "done" /\ req'[r].pc = "done"

\* C1: with caching enabled, a request made after more than the survival
\* time has passed since the tile was cached is not answered from the cache:
\* the age of an entry a request returns never exceeds cacheTime.
C1_StaleEntryNeverServed ==
  \A r \in Req :
    Done(r) /\ req[r].cached => req[r].age <= cacheTime

\* C2: with caching enabled on a live provider, (a) a request that settles
\* with a freshly rendered image leaves it in the cache under its key with
\* the time of the write, (b) no step other than destroy removes or changes
\* the data of an entry whose age is still within cacheTime, and (c) a
\* request for a key whose entry is within cacheTime settles at once with
\* the entry's data, having made no fetch, decode or composite call and
\* raised no error.
C2_CachedWithinTTL ==
  [][(cpc = "built" /\ cacheTime # 0 /\ cache.def) =>
       /\ \A r \in Req :
            Settles(r) /\ req'[r].outcome = "image" /\ ~req'[r].cached =>
              /\ req'[r].tile \in DOMAIN cache'.map
              /\ cache'.map[req'[r].tile] =
                   [time |-> now, data |-> req'[r].data]
       /\ \A k \in DOMAIN cache.map :
            cache'.def /\ now' - cache.map[k].time <= cacheTime =>
              /\ k \in DOMAIN cache'.map
              /\ cache'.map[k].data = cache.map[k].data
       /\ \A r \in Req :
            (/\ Starts(r)
             /\ req'[r].kind = "tile"
             /\ ready
             /\ req'[r].tile[3] >= minimumLevel
             /\ req'[r].tile[3] <= maximumLevel
             /\ req'[r].tile \in DOMAIN cache.map
             /\ now - cache.map[req'[r].tile].time <= cacheTime) =>
              /\ req'[r].pc = "done"
              /\ req'[r].outcome = "image"
              /\ req'[r].data = cache.map[req'[r].tile].data
              /\ ~req'[r].called
              /\ req'[r].errs = 0]_vars

\* a request is answered from an entry that has reached the full survival
\* time, after another tile was rendered and cached in between
C2_Witness ==
  \E r \in Req :
    /\ Done(r) /\ req[r].cached /\ req[r].outcome = "image"
    /\ cacheTime # 0 /\ req[r].age = cacheTime
    /\ ~req[r].called
    /\ cache.def
    /\ \E k \in DOMAIN cache.map :
         k # req[r].tile /\ cache.map[k].time > cache.map[req[r].tile].time

\* C3: a request in flight when destroy() ran (during its overview fetch, its
\* decode or its compositing) resolves to an empty result, not an image and
\* not an error.  Stated for the requests none of whose collaborator calls
\* failed, where the provider alone decides the outcome.
C3_DestroyedInFlightResolvesEmpty ==
  \A r \in Req :
    (/\ Done(r)
     /\ req[r].kind = "tile"
     /\ req[r].killed
     /\ req[r].failed \notin {"fetch", "decode", "composite"}) =>
      req[r].outcome = "empty"

\* C4: a request whose decode or composite step failed has raised the error
\* event exactly once and is rejected.
C4_FailureRaisedOnce ==
  \A r \in Req :
    (/\ Done(r)
     /\ req[r].kind = "tile"
     /\ req[r].failed \in {"decode", "composite"}) =>
      req[r].outcome = "error" /\ req[r].errs = 1

\* C5: whenever a step of the construction failed (the RGB check, the
\* projection, the band of a single-band mode, building the plot object, or
\* a step of fromGeoTIFF before it), the creation threw and the provider is
\* not ready.
C5_FailedConstructionNeverReady ==
  created.failed # "none" => created.threw /\ ~ready

\* C6: on a ready provider a request with z < minimumLevel or
\* z > maximumLevel settles at once with an empty result: no fetch, decode or
\* composite call, no error event, and the tile cache and the overview
\* images are left as they were.
C6_OutOfRangeIsEmpty ==
  [][\A r \in Req :
       (/\ Starts(r)
        /\ req'[r].kind = "tile"
        /\ ready
        /\ \/ req'[r].tile[3] < minimumLevel
           \/ req'[r].tile[3] > maximumLevel) =>
         /\ req'[r].pc = "done"
         /\ req'[r].outcome = "empty"
         /\ req'[r].data = NoData
         /\ ~req'[r].called
         /\ req'[r].errs = 0
         /\ cache' = cache
         /\ images' = images]_vars

\* a request above the served zoom range has settled empty while the cache
\* holds an entry and another request is in flight
C6_Witness ==
  /\ ready
  /\ cache.def /\ DOMAIN cache.map # {}
  /\ \E r \in Req :
       /\ Done(r) /\ req[r].outcome = "empty" /\ ~req[r].called
       /\ req[r].kind = "tile"
       /\ req[r].tile[3] > maximumLevel
  /\ \E r \in Req : InFlight(req[r])

\* C7: the step in which a request fails in decode or composite changes
\* nothing of the provider: it stays ready, the cache keeps every entry with
\* its time and data and gains none, the overview images and every other
\* request are untouched.
C7_FailureIsLocal ==
  [][\A r \in Req :
       (/\ Settles(r)
        /\ req'[r].kind = "tile"
        /\ req'[r].failed \in {"decode", "composite"}) =>
         /\ ready'
         /\ pvars' = pvars
         /\ cache' = cache
         /\ images' = images
         /\ \A s \in Req \ {r} : req'[s] = req[s]]_vars

\* a request has failed in composite on a live provider whose cache holds
\* an entry, while another request is in flight
C7_Witness ==
  /\ ready /\ ~destroyed
  /\ cache.def /\ DOMAIN cache.map # {}
  /\ \E r \in Req :
       Done(r) /\ req[r].kind = "tile" /\ req[r].failed = "composite"
  /\ \E r \in Req : InFlight(req[r])

\* the bands the render mode in force reads its range for: the channels of
\* multi, else bands 1-3 of the RGB conversion, else the band of single
ActiveBands(ro) ==
  IF ro.multi.def THEN {ro.multi.band[c] : c \in 1..3}
  ELSE IF ro.convertToRGB THEN {1, 2, 3}
  ELSE IF ro.single.def THEN {ro.single.band}
  ELSE {}

\* C8: once the provider is ready, every band the active render mode refers
\* to has a {min, max} entry in bands, unless a single-band expression is in
\* force.  Stated for the providers fromUrl / fromBlob create, whose bands
\* the repository resolves itself.
C8_ReferencedBandsResolved ==
  (ready /\ cfg.via = "fromGeoTIFF" /\ ~ExpressionActive(renderOptions)) =>
    ActiveBands(renderOptions) \subseteq DOMAIN bands

InRange(z) == z >= minimumLevel /\ z <= maximumLevel

\* C9 as claimed: over the served zooms the overview index does not fall as
\* the zoom grows, and levels[0] is overview 0.
C9_IndexGrowsWithZoom ==
  cpc = "built" =>
    /\ \A z1, z2 \in 0..(Len(cogLevels) - 1) :
         InRange(z1) /\ InRange(z2) /\ z1 < z2 =>
           cogLevels[z1 + 1] <= cogLevels[z2 + 1]
    /\ cogLevels[1] = 0

\* C9 as amended: over the served zooms the overview index does not grow as
\* the zoom grows; levels[0] is the largest index of the map, which is the
\* last image of the file whenever that image is larger than half a tile;
\* the last level is overview 0, the full-resolution image; every served
\* zoom has a level.
C9_IndexFallsWithZoom ==
  cpc = "built" =>
    /\ \A z1, z2 \in 0..(Len(cogLevels) - 1) :
         InRange(z1) /\ InRange(z2) /\ z1 < z2 =>
           cogLevels[z1 + 1] >= cogLevels[z2 + 1]
    /\ \A z \in 1..Len(cogLevels) : cogLevels[1] >= cogLevels[z]
    /\ 2 * cfg.sizes[Len(cfg.sizes)] > TileSizeOf(cfg) =>
         cogLevels[1] = Len(cfg.sizes) - 1
    /\ cogLevels[Len(cogLevels)] = 0
    /\ maximumLevel <= Len(cogLevels) - 1

\* a level map over three overviews whose served zooms span a coarser and a
\* finer overview, the coarsest one repeated at the lowest zooms
C9_Witness ==
  /\ cpc = "built"
  /\ Len(cfg.sizes) = 3
  /\ Len(cogLevels) > 3
  /\ cogLevels[1] = 2 /\ cogLevels[2] = 2
  /\ InRange(1) /\ InRange(Len(cogLevels) - 1)
  /\ cogLevels[2] > cogLevels[Len(cogLevels)]

\* C10: when convertToRGB is requested on a file with fewer than 3 samples
\* per pixel, through the constructor or through fromUrl / fromBlob, the
\* creation never makes a provider ready and issues no raster read; it ends
\* failed, by the RGB check of the constructor or, when the multi option
\* lacks a channel, by getReadSamples before it.
C10_RGBOnNarrowSourceFails ==
  (cfg.renderOptions.convertToRGB /\ cfg.samples < 3) =>
    /\ ~ready
    /\ cpc # "built"
    /\ created.reads = 0
    /\ cpc = "failed" =>
         /\ created.threw
         /\ \/ created.failed = "rgb"
            \/ /\ created.failed = "samples"
               /\ cfg.via = "fromGeoTIFF"
               /\ cfg.renderOptions.multi.def
               /\ ~cfg.renderOptions.multi.full

\* fromUrl / fromBlob with convertToRGB on a file of fewer than 3 samples
\* and no statistics has failed at the RGB check
C10_Witness ==
  /\ cfg.renderOptions.convertToRGB /\ cfg.samples < 3
  /\ cfg.via = "fromGeoTIFF"
  /\ cfg.stats = {}
  /\ ~cfg.renderOptions.multi.def /\ ~cfg.renderOptions.single.def
  /\ cpc = "failed"
  /\ created.failed = "rgb"

\* C11: on a created provider whose options configured no render mode, the
\* mode in force is single with band 1 when the file has one sample per
\* pixel and the RGB conversion when it has more; a configured mode is kept
\* as configured, a single mode without a band getting band 1.
C11_DefaultModeResolved ==
  cpc = "built" =>
    LET ro == cfg.renderOptions
    IN IF NoModeConfigured(ro)
       THEN IF cfg.samples = 1
            THEN /\ renderOptions.single.def
                 /\ renderOptions.single.band = 1
                 /\ ~renderOptions.convertToRGB
                 /\ ~renderOptions.multi.def
            ELSE /\ renderOptions.convertToRGB
                 /\ ~renderOptions.single.def
                 /\ ~renderOptions.multi.def
       ELSE /\ renderOptions.convertToRGB = ro.convertToRGB
            /\ renderOptions.multi = ro.multi
            /\ renderOptions.single =
                 IF ro.single.def /\ ro.single.band = 0
                 THEN [ro.single EXCEPT !.band = 1]
                 ELSE ro.single

\* C12: on a provider whose cache survival time is zero the cache map stays
\* empty, no request is answered from it and none runs the cache write and
\* sweep; every request of a served zoom on the live provider goes to
\* _loadTile (overview fetch, then decode), and every image returned comes
\* out of a decode made for that request.
C12_NoCacheWhenDisabled ==
  [][(cpc = "built" /\ cacheTime = 0) =>
       /\ cache'.def => cache'.map = <<>>
       /\ \A r \in Req :
            ~req'[r].cached /\ ~req'[r].wrote /\ req'[r].swept = 0
       /\ \A r \in Req :
            (/\ Starts(r)
             /\ req'[r].kind = "tile"
             /\ ready /\ ~destroyed
             /\ req'[r].tile[3] >= minimumLevel
             /\ req'[r].tile[3] <= maximumLevel) =>
              req'[r].called /\ req'[r].pc \in {"fetch", "decode"}
       /\ \A r \in Req :
            (Settles(r) /\ req'[r].kind = "tile"
               /\ req'[r].outcome = "image") =>
              req[r].pc \in {"decode", "composite"}]_vars

\* without cache, a tile has been rendered and returned while a second
\* request for the same tile is decoding it again
C12_Witness ==
  /\ cacheTime = 0
  /\ cache.def /\ cache.map = <<>>
  /\ \E r, s \in Req :
       /\ r # s
       /\ Done(r) /\ req[r].outcome = "image" /\ ~req[r].wrote
       /\ req[s].pc = "decode" /\ req[s].tile = req[r].tile

\* C17: the step in which a request returns a freshly rendered image on a
\* caching provider stores it under the request's key with the time of the
\* write and leaves in the cache exactly the entries (the new one included)
\* whose age at that time is at most the survival time, each other entry
\* unchanged.
C17_WriteThenSweep ==
  [][\A r \in Req :
       (/\ Settles(r)
        /\ req'[r].kind = "tile"
        /\ req'[r].outcome = "image"
        /\ ~req'[r].cached
        /\ cacheTime # 0) =>
         LET k == req'[r].tile
             age(j) == IF j = k THEN 0 ELSE now - cache.map[j].time
         IN /\ req'[r].wrote
            /\ cache'.def
            /\ DOMAIN cache'.map =
                 {j \in DOMAIN cache.map \cup {k} : age(j) <= cacheTime}
            /\ k \in DOMAIN cache'.map =>
                 cache'.map[k] = [time |-> now, data |-> req'[r].data]
            /\ \A j \in DOMAIN cache'.map \ {k} :
                 cache'.map[j] = cache.map[j]]_vars

\* a cache write has evicted an entry older than the survival time and kept
\* another whose age is exactly the survival time
C17_Witness ==
  \E r \in Req :
    /\ Done(r) /\ req[r].wrote /\ req[r].swept > 0
    /\ cache.def
    /\ req[r].tile \in DOMAIN cache.map
    /\ \E j \in DOMAIN cache.map :
         j # req[r].tile /\ now - cache.map[j].time = cacheTime

\* request r is a feature pick taking a step
PickSteps(r) ==
  /\ req'[r] # req[r]
  /\ \/ req'[r].kind = "pick"
     \/ req[r].kind = "pick" /\ req[r].pc # "idle"

\* C13: a pickFeatures call on a provider without enablePickFeatures
\* settles at once with the empty result, no overview fetch and no decode.
\* With enablePickFeatures the call on a live provider reads the overview of
\* the zoom clamped to maximumLevel, fetching it first when the slot is
\* empty, and whatever it returns comes out of a decode made for this call;
\* a failing decode rejects the call.  No step of a pick reads or changes
\* the tile cache.
C13_PickFeatures ==
  [][\A r \in Req :
       /\ PickSteps(r) => cache' = cache /\ ~req'[r].cached
       /\ (Starts(r) /\ req'[r].kind = "pick") =>
            IF ~cfg.enablePickFeatures
            THEN /\ req'[r].pc = "done"
                 /\ req'[r].outcome = "empty"
                 /\ ~req'[r].called
                 /\ images' = images
            ELSE images.def =>
                   LET zoom == req'[r].tile[3]
                       z == IF zoom > maximumLevel THEN maximumLevel
                            ELSE zoom
                   IN /\ req'[r].called
                      /\ req'[r].level = z
                      /\ req'[r].pc =
                           IF images.arr[cogLevels[z + 1]] # 0
                           THEN "pdecode" ELSE "pfetch"
       /\ (req[r].pc = "pfetch" /\ req'[r].pc # "pfetch") =>
            req'[r].pc = "pdecode" \/ req'[r].failed = "fetch"
       /\ (Settles(r) /\ req'[r].kind = "pick") =>
            /\ req'[r].outcome = "features" => req[r].pc = "pdecode"
            /\ req'[r].failed = "decode" =>
                 req[r].pc = "pdecode" /\ req'[r].outcome = "error"]_vars

\* a pick above maximumLevel has returned features read at maximumLevel
\* while the tile cache holds an entry
C13_Witness ==
  /\ cfg.enablePickFeatures
  /\ cache.def /\ DOMAIN cache.map # {}
  /\ \E r \in Req :
       /\ Done(r) /\ req[r].kind = "pick" /\ req[r].outcome = "features"
       /\ req[r].tile[3] > maximumLevel
       /\ req[r].level = maximumLevel

\* C15: the rectangle of a created provider has east > west; a box whose
\* east corner lies west of its west corner has had one full turn added to
\* east and its west kept, and a box with east > west is kept as it is.
C15_EastAboveWest ==
  cpc = "built" =>
    LET w == cfg.box.west \div 90
        e == cfg.box.east \div 90
    IN /\ rectangle.def
       /\ rectangle.east > rectangle.west
       /\ rectangle.west = w
       /\ e < w => rectangle.east = e + 4
       /\ e > w => rectangle.east = e

\* C16: the range resolved for each sample read is the first that applies
\* of: the file's statistics; [0, 255] when the RGB conversion is asked for;
\* the min / max the multi mode gives the channel of that band; the domain
\* of a single mode without expression for that very band; the range
\* sampled from the coarsest overview, when no expression is in force.
\* Stated for the bands fromUrl / fromBlob resolve.
C16_FirstMatchPriority ==
  (cfg.via = "fromGeoTIFF" /\ cpc \in {"bands", "built"}) =>
    \A i \in SeqRange(readSamples) :
      LET ro == cfg.renderOptions
          first ==
            IF i \in cfg.stats THEN StatsRange
            ELSE IF ro.convertToRGB THEN RGBRange
            ELSE IF /\ ro.multi.def /\ ro.multi.ranged
                    /\ \E c \in 1..3 : ro.multi.band[c] = i + 1
                 THEN MultiRange
            ELSE IF /\ ro.single.def /\ ~ro.single.hasExpr
                    /\ ro.single.band = i + 1 /\ ro.single.domain
                 THEN DomainRange
            ELSE IF ~(ro.single.def /\ ro.single.hasExpr) THEN SampledRange
            ELSE NoRange
      IN IF first.def
         THEN (i + 1) \in DOMAIN bands /\ bands[i + 1] = first
         ELSE (i + 1) \notin DOMAIN bands

\* C18: a request's write never replaces what is already there: the step in
\* which a tile request or a pick comes back from its overview fetch finds
\* the slot of its overview empty, and no step other than destroy changes
\* the time or the data of an entry the cache map holds and keeps.
C18_PopulateIfAbsent ==
  [][/\ \A r \in Req :
          (/\ req[r].pc \in {"fetch", "pfetch"}
           /\ req'[r].pc \in {"decode", "pdecode"}
           /\ images.def) =>
            images.arr[cogLevels[req[r].level + 1]] = 0
     /\ (cache.def /\ cache'.def) =>
          \A k \in DOMAIN cache.map \cap DOMAIN cache'.map :
            cache'.map[k] = cache.map[k]]_vars

\* C19: the highest zoom served is the smaller of the configured maximumLevel
\* (18 when none is passed, as from fromUrl / fromBlob) and the last index of
\* the level map, and every zoom from minimumLevel
\* (>= 0) to it has an entry in the level map that is the index of one of
\* the file's images.
C19_ServedZoomsHaveOverview ==
  cpc = "built" =>
    /\ LET configured == IF cfg.via = "fromGeoTIFF"
                          THEN DefaultMaximumLevel ELSE cfg.maximumLevel
       IN maximumLevel = IF configured < Len(cogLevels) - 1
                         THEN configured ELSE Len(cogLevels) - 1
    /\ \A z \in minimumLevel..maximumLevel :
         /\ z + 1 \in DOMAIN cogLevels
         /\ cogLevels[z + 1] \in 0..(Len(cfg.sizes) - 1)
         /\ cogLevels[z + 1] \in DOMAIN images.arr

\* a provider configured for more zooms than its level map has serves the
\* zooms up to the last entry of the map, the full-resolution image
C19_Witness ==
  /\ cpc = "built"
  /\ cfg.via = "constructor"
  /\ cfg.maximumLevel > Len(cogLevels) - 1
  /\ maximumLevel = Len(cogLevels) - 1
  /\ minimumLevel < maximumLevel
  /\ Len(cfg.sizes) = MaxImages
  /\ cogLevels[maximumLevel + 1] = 0

\* C20: on a destroyed provider a newly started requestImage or
\* pickFeatures call settles at once, rejected or with the empty result,
\* having issued no overview fetch and no decode.
C20_NoWorkAfterDestroy ==
  [][\A r \in Req :
       (Starts(r) /\ destroyed) =>
         /\ req'[r].pc = "done"
         /\ req'[r].outcome \in {"error", "empty"}
         /\ req'[r].data = NoData
         /\ ~req'[r].called
         /\ images' = images /\ cache' = cache]_vars

\* after destroy, a requestImage of a served zoom and a pickFeatures on a
\* provider that answers picks have both been rejected
C20_Witness ==
  /\ destroyed
  /\ cfg.enablePickFeatures
  /\ \E r \in Req :
       /\ Done(r) /\ req[r].outcome = "error" /\ ~req[r].called
       /\ ~req[r].killed
       /\ req[r].kind = "pick"

\* C23: a provider that is ready never has the RGB conversion in force on a
\* file with fewer than 3 samples per pixel, whatever the render options,
\* configured or defaulted.
C23_ReadyRGBHasThreeSamples ==
  ready => ~(renderOptions.convertToRGB /\ cfg.samples < 3)


SingleMode ==
  /\ renderOptions.single.def
  /\ ~renderOptions.multi.def
  /\ ~renderOptions.convertToRGB

\* C21: in single-band mode, whatever other requests have drawn on the shared
\* plot and canvas before or in between, the image a tile request settles with
\* after rendering, and the image it writes to the cache under its key, show
\* the data decoded for that request and nothing else.
C21_RenderedFromOwnData ==
  [][\A r \in Req :
       (/\ Settles(r)
        /\ SingleMode
        /\ req'[r].kind = "tile"
        /\ req'[r].outcome = "image"
        /\ ~req'[r].cached) =>
         /\ req'[r].data = Decoded(req[r])
         /\ shared'.canvas = Decoded(req[r])
         /\ req'[r].wrote =>
              /\ req'[r].tile \in DOMAIN cache'.map
              /\ cache'.map[req'[r].tile].data = Decoded(req[r])]_vars

\* a request has rendered on a canvas that showed another tile, which is in
\* the cache, while a third tile is still being decoded
C21_Witness ==
  \E r \in Req : \E s \in Req \ {r} :
    /\ SingleMode
    /\ Done(r) /\ req[r].kind = "tile"
    /\ req[r].outcome = "image" /\ ~req[r].cached /\ req[r].wrote
    /\ req[s].pc = "decode" /\ req[s].tile # req[r].tile
    /\ \E j \in DOMAIN cache.map :
         j # req[r].tile /\ j # req[s].tile /\ cache.map[j].data = j


Windowed(r) == req[r].kind = "tile" /\ req[r].window # NoWindow

\* C22: at every zoom served, the pixel windows of the tiles cut the overview
\* along each axis without gap or overlap: every window lies within the
\* image with start <= end, the first tile starts at pixel 0, the last of the
\* 2^z tiles ends at the width (height), and the window of tile x ends
\* where the window of tile x + 1 starts.
C22_WindowsPartition ==
  \A r \in Req :
    Windowed(r) =>
      LET z == req[r].level
          x == req[r].tile[1]
          y == req[r].tile[2]
          n == Pow2(z)
          width == WidthOf(LevelIndex(z))
          height == HeightOf(LevelIndex(z))
          w == req[r].window
      IN /\ 0 <= w[1] /\ w[1] <= w[3] /\ w[3] <= width
         /\ 0 <= w[2] /\ w[2] <= w[4] /\ w[4] <= height
         /\ x = 0 => w[1] = 0
         /\ y = 0 => w[2] = 0
         /\ x = n - 1 => w[3] = width
         /\ y = n - 1 => w[4] = height
         /\ \A s \in Req :
              (Windowed(s) /\ req[s].level = z) =>
                /\ req[s].tile[1] = x + 1 => req[s].window[1] = w[3]
                /\ req[s].tile[2] = y + 1 => req[s].window[2] = w[4]

\* two neighbouring tiles of one zoom have their windows, and their common
\* bound is a rounded one on both axes
C22_Witness ==
  \E r \in Req : \E s \in Req :
    /\ Windowed(r) /\ Windowed(s)
    /\ req[s].level = req[r].level
    /\ req[s].tile[1] = req[r].tile[1] + 1
    /\ req[s].tile[2] = req[r].tile[2] + 1
    /\ LET n == Pow2(req[r].level)
           i == LevelIndex(req[r].level)
       IN /\ req[r].window[3] * n # req[s].tile[1] * WidthOf(i)
          /\ req[r].window[4] * n # req[s].tile[2] * HeightOf(i)

====
